---- MODULE Spec2Model ----
(***************************************************************************)
(* cloudscraper-ts: the CloudScraper request orchestrator (request,        *)
(* handleCloudflareChallenges, _handle403Error, _refreshSession,           *)
(* _applyRequestThrottling) and the Cloudflare v1 detector and resolver    *)
(* (isChallengeRequest, challengeResponse).                                *)
(*                                                                         *)
(* Time is counted in whole seconds: minRequestInterval and                *)
(* sessionRefreshInterval are given in seconds, and the 100 ms poll of the *)
(* concurrency wait comes round within one tick.  A step of the model is   *)
(* one run of the JavaScript event loop: the code between two suspensions  *)
(* on a timer or on network I/O.  Awaits that only pass through the        *)
(* microtask queue (an async function that finishes without suspending, a  *)
(* promise that is already settled) do not let another request's timer or  *)
(* I/O callback run, so they do not end a step.                            *)
(***************************************************************************)
EXTENDS Integers, Sequences, FiniteSets, TLC

VARIABLES
    opt,        \* the constructor options of the instance
    menu,       \* the outcomes the transport may answer a dispatch with
    probes,     \* the outcomes the transport may answer a refresh probe with
    callers,    \* the callers that issue requests on the instance
    quota,      \* the top-level requests each caller issues
    scraper,    \* the instance's mutable fields
    now,        \* Date.now(), in ticks
    stack,      \* per caller: the active request() calls, innermost last
    result,     \* per caller: how its last top-level request() ended
    started,    \* per caller: top-level requests issued so far
    obs,        \* per caller: what the current top-level request did so far
    wire,       \* the transport: dispatches made and their spacing
    det,        \* the detector's last input and verdict
    manager,    \* a ProxyManager used on its own, and what its caller saw of it
    solver,     \* the challenge solver: its last call and what it made of it
    access      \* the cookie accessors: the jar, the last call and what it returned

vars == <<opt, menu, probes, callers, quota, scraper, now, stack, result, started,
          obs, wire, det, manager, solver, access>>

-----------------------------------------------------------------------------
(* Bounds of the model *)

MaxRequests == 2        \* top-level requests of a lone caller
MaxCalls == 4           \* transport dispatches per top-level request
Horizon == 4            \* seconds the clock runs past construction

(* Option values the model runs with besides the defaults *)
Max403Retries == 2
ShortRefreshInterval == 2
AmpleConcurrency == 4
MaxStat == 2            \* the successes and failures counted per proxy
MaxPicks == 4           \* getProxy calls on a ProxyManager used on its own
MaxReports == 2         \* report calls on a ProxyManager used on its own
ShortBanTime == 2

(* Program constants: the defaults of the constructor, the 60000 ms of
   _shouldRefreshSession *)
DefaultSolveDepth == 3
DefaultMinRequestInterval == 1
DefaultMaxConcurrentRequests == 1
DefaultSessionRefreshInterval == 3600
Recent403Window == 60
DefaultBanTime == 300
RandomSteps == 6         \* Math.random() is one of 0/6, 1/6, ..., 5/6

Tasks == {1, 2, 3}

Epoch == Recent403Window + DefaultSessionRefreshInterval
MaxTime == Epoch + Horizon

-----------------------------------------------------------------------------
(* Responses *)

Markers == {"jsch", "captcha", "form", "formEnd", "orchJsch", "orchCaptcha", "code1020"}

Servers == {"none", "cloudflare", "cloudflare-nginx", "nginx"}

Resp(status, server, marks, loc) ==
    [status |-> status, server |-> server, marks |-> marks, loc |-> loc]

NoResp == Resp(0, "none", {}, FALSE)

StartsWithCloudflare(server) == server \in {"cloudflare", "cloudflare-nginx"}

IsIUAMChallenge(r) ==
    /\ StartsWithCloudflare(r.server)
    /\ r.status \in {429, 503}
    /\ "jsch" \in r.marks
    /\ "form" \in r.marks

IsCaptchaChallenge(r) ==
    /\ StartsWithCloudflare(r.server)
    /\ r.status = 403
    /\ "captcha" \in r.marks
    /\ "form" \in r.marks

IsNewIUAMChallenge(r) == IsIUAMChallenge(r) /\ "orchJsch" \in r.marks

IsNewCaptchaChallenge(r) == IsCaptchaChallenge(r) /\ "orchCaptcha" \in r.marks

IsFirewallBlocked(r) ==
    /\ StartsWithCloudflare(r.server)
    /\ r.status = 403
    /\ "code1020" \in r.marks

IsChallengeRequestLegacyFirst(r) ==
    IF IsCaptchaChallenge(r) \/ IsIUAMChallenge(r) THEN "true"
    ELSE IF IsFirewallBlocked(r) THEN "CloudflareCode1020"
    ELSE "false"

\* isChallengeRequest: "true", "false", or the name of the error it throws
IsChallengeRequest(r) ==
    IF IsFirewallBlocked(r) THEN "CloudflareCode1020"
    ELSE IF IsNewCaptchaChallenge(r) THEN "CloudflareChallengeError"
    ELSE IF IsNewIUAMChallenge(r) THEN "CloudflareChallengeError"
    ELSE IF IsCaptchaChallenge(r) \/ IsIUAMChallenge(r) THEN "true"
    ELSE "false"

\* The ChallengeKind the orchestrator acts on: isChallengeRequest's verdict,
\* and for a legacy challenge the branch challengeResponse takes.
ChallengeKind(r) ==
    LET v == IsChallengeRequest(r) IN
    IF v = "CloudflareCode1020" THEN "FirewallBlock"
    ELSE IF v = "CloudflareChallengeError" THEN "NewerUnsupported"
    ELSE IF v = "true" THEN (IF IsCaptchaChallenge(r) THEN "LegacyCaptcha" ELSE "LegacyJS")
    ELSE "None"

DetectorStatuses == {200, 403, 429, 503}

DetectorInputs ==
    {Resp(s, h, m, FALSE) : s \in DetectorStatuses, h \in Servers, m \in SUBSET Markers}

-----------------------------------------------------------------------------
(* ProxyManager.  A proxy URL is kept as its scheme and its address; the
   strategies modelled are 'sequential' and 'random' *)

Proxy(scheme, addr) == [scheme |-> scheme, addr |-> addr]

\* No proxy: the undefined that getProxy returns, the null of currentProxy
NoProxy == [protocol |-> "", url |-> Proxy("", "")]

\* proxyToConfig: the URL under the key of its protocol
ProxyToConfig(proxyUrl) == [protocol |-> proxyUrl.scheme, url |-> proxyUrl]

\* The keys configToProxyUrl looks under
ConfigProtocols == {"http", "https", "socks", "socks5"}

\* configToProxyUrl: the URL of a configuration, Proxy("", "") for undefined
ConfigToProxyUrl(proxy) ==
    IF proxy.protocol \in ConfigProtocols THEN proxy.url ELSE Proxy("", "")

\* new ProxyManager({proxies, proxyRotationStrategy, banTime})
NewProxyManager(proxies, strategy, banTime) ==
    [proxies |-> proxies,
     rotationStrategy |-> strategy,
     banTime |-> banTime,
     currentIndex |-> 0,
     bannedProxies |-> {},
     failures |-> [i \in 1..Len(proxies) |-> 0],
     successes |-> [i \in 1..Len(proxies) |-> 0],
     currentProxy |-> NoProxy]

\* The constructor's proxyManager of an instance without proxies: null
NoProxyManager == NewProxyManager(<<>>, "sequential", DefaultBanTime)

IsBanned(pm, proxyUrl) == \E b \in pm.bannedProxies : b.proxy = proxyUrl

\* cleanupBannedProxies at time `time`
CleanupBannedProxies(pm, time) ==
    [pm EXCEPT !.bannedProxies = {b \in @ : ~(b.expiry < time)}]

\* The proxies left after the filter of getProxy
AvailableProxies(pm) == SelectSeq(pm.proxies, LAMBDA proxyUrl : ~IsBanned(pm, proxyUrl))

GetProxyNoRotation(pm, time, rnd) ==
    IF Len(pm.proxies) = 0 THEN [pm |-> pm, ret |-> NoProxy]
    ELSE LET pm1 == CleanupBannedProxies(pm, time)
             availableProxies == AvailableProxies(pm1)
         IN IF Len(availableProxies) = 0 THEN [pm |-> pm1, ret |-> NoProxy]
            ELSE LET selected == availableProxies[1]
                 IN [pm |-> [pm1 EXCEPT !.currentProxy = ProxyToConfig(selected)],
                     ret |-> ProxyToConfig(selected)]

\* getProxy at time `time`; rnd of RandomSteps stands for Math.random().
\* The result is the manager afterwards and the value returned
GetProxy(pm, time, rnd) ==
    IF Len(pm.proxies) = 0 THEN [pm |-> pm, ret |-> NoProxy]
    ELSE LET pm1 == CleanupBannedProxies(pm, time)
             availableProxies == AvailableProxies(pm1)
         IN IF Len(availableProxies) = 0 THEN [pm |-> pm1, ret |-> NoProxy]
            ELSE IF pm1.rotationStrategy = "random"
            THEN LET selected == availableProxies[((rnd * Len(availableProxies)) \div RandomSteps) + 1]
                 IN [pm |-> [pm1 EXCEPT !.currentProxy = ProxyToConfig(selected)],
                     ret |-> ProxyToConfig(selected)]
            ELSE LET index == IF pm1.currentIndex >= Len(availableProxies)
                              THEN 0 ELSE pm1.currentIndex
                     selected == availableProxies[index + 1]
                 IN [pm |-> [pm1 EXCEPT !.currentIndex = index + 1,
                                        !.currentProxy = ProxyToConfig(selected)],
                     ret |-> ProxyToConfig(selected)]

\* The places of a URL in the configured list (proxyStats is keyed by URL)
StatsOf(pm, proxyUrl) == {i \in 1..Len(pm.proxies) : pm.proxies[i] = proxyUrl}

ReportSuccess(pm, proxy) ==
    LET proxyUrl == ConfigToProxyUrl(proxy)
    IN IF proxyUrl = Proxy("", "") THEN pm
       ELSE [pm EXCEPT !.successes = [i \in DOMAIN @ |->
                                        IF i \in StatsOf(pm, proxyUrl) /\ @[i] < MaxStat
                                        THEN @[i] + 1 ELSE @[i]]]

\* reportFailure at time `time`
ReportFailure(pm, proxy, time) ==
    LET proxyUrl == ConfigToProxyUrl(proxy)
    IN IF proxyUrl = Proxy("", "") THEN pm
       ELSE [pm EXCEPT !.bannedProxies =
                           {b \in @ : b.proxy # proxyUrl}
                               \cup {[proxy |-> proxyUrl, expiry |-> time + pm.banTime]},
                       !.failures = [i \in DOMAIN @ |->
                                        IF i \in StatsOf(pm, proxyUrl) /\ @[i] < MaxStat
                                        THEN @[i] + 1 ELSE @[i]]]

-----------------------------------------------------------------------------
(* The challenge solver: JavaScriptInterpreterFactory, the interpreters,
   Cloudflare.iuamChallengeResponse *)

\* The interpreter names the factory has a case for
KnownInterpreters == {"js2py", "nodejs", "v8", "chakracore", "native"}

\* The names an interpreter is asked for by: the known ones, one in another
\* case, and two the factory has no case for
InterpreterNames == KnownInterpreters \cup {"V8", "quickjs", "node"}

\* options.interpreter || 'js2py'
DefaultInterpreter == "js2py"

\* interpreterName.toLowerCase() on those names
ToLowerCase(name) == IF name = "V8" THEN "v8" ELSE name

\* What a call may end with: a value, or an error of some class
Returned(value) == [ok |-> TRUE, value |-> value, err |-> "", cause |-> ""]
Thrown(err, cause) == [ok |-> FALSE, value |-> "", err |-> err, cause |-> cause]

\* JavaScriptInterpreterFactory.createInterpreter: the class instantiated
CreateInterpreter(interpreterName) ==
    LET name == ToLowerCase(interpreterName)
    IN CASE name = "js2py"      -> Returned("Js2PyInterpreter")
         [] name = "nodejs"     -> Returned("NodeJsInterpreter")
         [] name = "v8"         -> Returned("V8Interpreter")
         [] name = "chakracore" -> Returned("ChakraCoreInterpreter")
         [] OTHER               -> Returned("NativeInterpreter")

\* The input names the resolver copies from the challenge form
AllowList == {"r", "jschl_vc", "pass"}

\* The names of the valued inputs a challenge form may carry: the allow-listed
\* ones, the form's own answer field and one more hidden field
InputNames == AllowList \cup {"jschl_answer", "md"}

\* The valued inputs of the forms considered: none, some allow-listed and some
\* not, the allow-listed ones alone, and all of them
FieldSets == {{}, {"r", "md"}, AllowList, InputNames}

\* A challenge page, as far as the solver reads it: whether it has the
\* challenge form with its token, the names of the form's valued inputs, and
\* what its challenge script is: missing (no setTimeout marker), not parsable,
\* throwing when run, leaving the answer field empty, or computing an answer
Scripts == {"missing", "syntax", "throws", "novalue", "value"}
Body(form, fields, script) == [form |-> form, fields |-> fields, script |-> script]
Bodies == {Body(form, fields, script) : form \in BOOLEAN, fields \in FieldSets, script \in Scripts}

\* The action attribute of the challenge form, as written in the page
ChallengeAction == "/?__cf_chl_f_tk=tk&amp;s=1"

\* Cloudflare.unescape on that attribute
Unescape(htmlText) == IF htmlText = ChallengeAction THEN "/?__cf_chl_f_tk=tk&s=1" ELSE htmlText

\* A page URL as new URL(url) parses it
Url(protocol, hostname, port, pathname) ==
    [protocol |-> protocol, hostname |-> hostname, port |-> port, pathname |-> pathname]

\* The URLs of the pages resolved
Urls == {Url("https:", "a.test", "", "/"), Url("http:", "b.test", "8080", "/x")}

\* protocol//hostname followed by the unescaped form action
SubmissionUrl(url) == Url(url.protocol, url.hostname, "", Unescape(ChallengeAction))

\* The answer a script that computes one assigns to the answer field
Computed == "19.4263781"

\* NativeInterpreter.executeJavaScript: new Function(code)() on a body that
\* ends in an expression statement and has no return
ExecuteJavaScript(script) ==
    IF script \in {"syntax", "throws"} THEN Thrown("Error", "evaluator")
    ELSE Returned("")

\* NativeInterpreter.solveChallenge
NativeSolveChallenge(body) ==
    IF body.script = "missing" THEN Thrown("Error", "evaluator")
    ELSE ExecuteJavaScript(body.script)

\* solveChallenge of an interpreter of the given class
SolveChallenge(class, body) ==
    IF class = "NativeInterpreter" THEN NativeSolveChallenge(body) ELSE Returned("0")

\* The resubmission: where it goes, the names of the inputs copied from the
\* form, and the answer
Payload(url, fields, answer) == [url |-> url, fields |-> fields, jschl_answer |-> answer]

\* The resolver copying every valued input of the form
IuamChallengeResponseAllInputs(body, url, interpreter) ==
    IF ~body.form THEN Thrown("CloudflareIUAMError", "extraction")
    ELSE LET made == CreateInterpreter(interpreter)
             answer == IF made.ok THEN SolveChallenge(made.value, body) ELSE made
         IN IF answer.ok
            THEN Returned(Payload(SubmissionUrl(url), body.fields, answer.value))
            ELSE Thrown("CloudflareIUAMError", answer.cause)

\* Cloudflare.iuamChallengeResponse: the resubmission it prepares
IuamChallengeResponse(body, url, interpreter) ==
    IF ~body.form THEN Thrown("CloudflareIUAMError", "extraction")
    ELSE LET made == CreateInterpreter(interpreter)
             answer == IF made.ok THEN SolveChallenge(made.value, body) ELSE made
         IN IF answer.ok
            THEN Returned(Payload(SubmissionUrl(url), body.fields \cap AllowList, answer.value))
            ELSE Thrown("CloudflareIUAMError", answer.cause)

\* Nothing was asked of the cookie accessors yet
Unasked(jar) ==
    [asked |-> "", jar |-> jar, got |-> Returned(200), tokens |-> Thrown("", ""),
     string |-> Thrown("", ""), all |-> <<>>]

\* Nothing was asked of the solver yet
Unsolved ==
    [asked |-> "", interpreter |-> DefaultInterpreter, body |-> Body(FALSE, {}, "missing"),
     url |-> Url("https:", "a.test", "", "/"),
     created |-> Returned(""), solved |-> Returned(""),
     response |-> Returned(Payload(Url("", "", "", ""), {}, "")),
     repeated |-> FALSE, first |-> Returned(Payload(Url("", "", "", ""), {}, ""))]

-----------------------------------------------------------------------------
(* Values *)

NoOutcome ==
    [kind |-> "none", resp |-> NoResp, rid |-> 0, hooked |-> FALSE, err |-> "", depth |-> 0]

\* request() resolved with response r, which dispatch rid brought
Value(r, rid, hooked) ==
    [kind |-> "response", resp |-> r, rid |-> rid, hooked |-> hooked, err |-> "", depth |-> 0]

\* request() rejected with error e
Error(e, depth) ==
    [kind |-> "error", resp |-> NoResp, rid |-> 0, hooked |-> FALSE, err |-> e, depth |-> depth]

NoObs ==
    [calls |-> 0,           \* transport dispatches
     solves |-> 0,          \* challenge resolutions (solve and resubmit)
     refreshes |-> 0,       \* _refreshSession calls of _handle403Error
     prerefreshes |-> 0,    \* _refreshSession calls of request()
     retries |-> 0,         \* re-issues of the request by _handle403Error
     entry403 |-> 0,        \* _handle403Error calls
     hist |-> <<>>,         \* the responses received, in order
     probed |-> {},         \* the statuses the refresh probes got
     probe |-> -1,          \* the status the last probe of _handle403Error got
     fatal |-> "",          \* the kind of a firewall-block or newer challenge received
     bumped |-> FALSE,      \* a non-Cloudflare response raised the loop counter
     lapse |-> FALSE,       \* a 403 that is no challenge left the session not stale
     proxy |-> NoProxy,     \* the config.proxy of the last dispatch
     failure |-> ""]        \* the code of the error the transport rejected with

\* One call of request(): where it stands, who made it, the response it handles,
\* its dispatch, its timer and its config.proxy
Frame(via) ==
    [pc |-> "sleep", via |-> via, resp |-> NoResp, rid |-> 0, wake |-> now, proxy |-> NoProxy]

Top(c) == c.stk[Len(c.stk)]

SetTop(c, f) == [c EXCEPT !.stk[Len(c.stk)] = f]

At(c, pc, wake) == SetTop(c, [Top(c) EXCEPT !.pc = pc, !.wake = wake])

-----------------------------------------------------------------------------
(* CloudScraper *)

\* if (this.currentConcurrentRequests > 0) this.currentConcurrentRequests--
Decrement(sc) ==
    IF sc.currentConcurrentRequests > 0
    THEN [sc EXCEPT !.currentConcurrentRequests = @ - 1]
    ELSE sc

\* _shouldRefreshSession, were it called at the given time
ShouldRefreshSessionAt(sc, time) ==
    \/ time - sc.sessionStartTime > opt.sessionRefreshInterval
    \/ sc.last403Time > 0 /\ time - sc.last403Time < Recent403Window

ShouldRefreshSession(sc) == ShouldRefreshSessionAt(sc, now)

\* _refreshSession up to its probe: cookies cleared, session tracking reset
CfCookieNames ==
    {"cf_clearance", "cf_chl_2", "cf_chl_prog", "cf_chl_rc_ni", "cf_turnstile", "__cf_bm"}

Cookie(domain, key) == [domain |-> domain, key |-> key]

\* The cookies a response of the transport stores in the jar
SetCookies == {Cookie("example.com", "cf_clearance"), Cookie("example.com", "sid")}

\* CookieJar.prototype.getDomainsSync as this file defines it: no domain
GetDomainsSync(jar) == {}

\* CookieJar.prototype.removeAllCookiesSync as this file defines it: no effect
RemoveAllCookiesSync(jar, domain, key) == jar

RECURSIVE RemoveEach(_, _)
RemoveEach(jar, targets) ==
    IF targets = {} THEN jar
    ELSE LET x == CHOOSE y \in targets : TRUE
         IN RemoveEach(RemoveAllCookiesSync(jar, x[1], x[2]), targets \ {x})

\* _clearCloudflareCookies
ClearCloudflareCookies(jar) == RemoveEach(jar, GetDomainsSync(jar) \X CfCookieNames)

\* A cookie of the jar with its value. A string that is joined and split is
\* the sequence of its pieces: a name, "=", "; " and the pieces of a value
ValuedCookie(domain, key, value) == [domain |-> domain, key |-> key, value |-> value]

\* cookieNames of getTokens, in the order it looks them up
TokenCookieNames ==
    <<"cf_clearance", "cf_chl_2", "cf_chl_prog", "cf_chl_rc_ni", "cf_turnstile">>

\* CookieJar.prototype.getCookiesSync as this file defines it: a promise of
\* an empty array, whatever the jar holds
GetCookiesSync(jar, url) == [promise |-> TRUE, value |-> <<>>]

\* await
Await(p) == IF p.promise THEN p.value ELSE p

\* this.userAgent.getUserAgent()
UserAgent == "Mozilla/5.0"

\* getTokens: d.startsWith('.') && domain.endsWith(d.substring(1)), or d === domain
CookieDomainOf(domains, domain) == {d \in domains : d = domain \/ d = "." \o domain}

RECURSIVE CfCookies(_, _)
\* getTokens, the loop over cookieNames: the names found among the cookies
CfCookies(cookies, i) ==
    IF i > Len(TokenCookieNames) THEN <<>>
    ELSE LET cookie == SelectSeq(cookies, LAMBDA c : c.key = TokenCookieNames[i])
         IN (IF cookie = <<>> THEN <<>>
             ELSE << <<TokenCookieNames[i], cookie[1].value>> >>) \o CfCookies(cookies, i + 1)

\* getTokens(url) once its this.get(url) ended with got
GetTokens(jar, domain, got) ==
    IF ~got.ok THEN Thrown("Error", got.err)
    ELSE IF got.value # 200 THEN Thrown("Error", "status")
    ELSE IF CookieDomainOf(GetDomainsSync(jar), domain) = {}
         THEN Thrown("Error", "CloudflareIUAMError")
    ELSE Returned([tokens |-> CfCookies(Await(GetCookiesSync(jar, domain)), 1),
                   userAgent |-> UserAgent])

RECURSIVE JoinEntries(_, _)
\* Object.entries(tokens).map(([key, value]) => `${key}=${value}`).join('; ')
JoinEntries(tokens, i) ==
    IF i > Len(tokens) THEN <<>>
    ELSE <<tokens[i][1], "=">> \o tokens[i][2]
            \o (IF i < Len(tokens) THEN <<"; ">> ELSE <<>>) \o JoinEntries(tokens, i + 1)

\* getCookieString(url) once its this.get(url) ended with got
GetCookieString(jar, domain, got) ==
    LET t == GetTokens(jar, domain, got)
    IN IF ~t.ok THEN t
       ELSE Returned([string |-> JoinEntries(t.value.tokens, 1),
                      userAgent |-> t.value.userAgent])

\* getCookies(): the loop over what getCookiesSync('') returned; a promise is
\* not iterable, the TypeError is caught and the empty record returned
GetCookies(jar) ==
    LET cookieArray == GetCookiesSync(jar, "")
    IN IF cookieArray.promise THEN <<>>
       ELSE [i \in 1..Len(cookieArray) |-> <<cookieArray[i].key, cookieArray[i].value>>]

RefreshStart(c) ==
    [c EXCEPT !.sc.jar = ClearCloudflareCookies(@),
              !.sc.sessionStartTime = now, !.sc.requestCount = 0]

RefreshSucceededBelow400(status) == status >= 200 /\ status < 400

RefreshSucceeded(status) == status \in {200, 301, 302, 304}

\* request(), from the end of throttling to the transport call
PreDispatch(c) ==
    LET rotates == Top(c).proxy = NoProxy /\ opt.proxies # <<>>
        got == GetProxy(c.sc.pm, now, 0)
        c0 == IF rotates
              THEN SetTop([c EXCEPT !.sc.pm = got.pm], [Top(c) EXCEPT !.proxy = got.ret])
              ELSE c
        c1 == [c0 EXCEPT !.sc.requestCount = @ + 1,
                         !.sc.currentConcurrentRequests = @ + 1,
                         !.ob.calls = @ + 1,
                         !.ob.proxy = Top(c0).proxy,
                         !.wire = [last |-> now,
                                   close |-> \/ c.wire.close
                                             \/ /\ c.wire.last > 0
                                                /\ now - c.wire.last < opt.minRequestInterval]]
    IN SetTop(c1, [Top(c1) EXCEPT !.pc = "dispatch", !.rid = c1.ob.calls])

\* request(), after _applyRequestThrottling returned: the staleness check
AfterThrottling(c) ==
    IF ShouldRefreshSession(c.sc)
    THEN At([RefreshStart(c) EXCEPT !.ob.prerefreshes = @ + 1], "probe", now)
    ELSE PreDispatch(c)

\* _applyRequestThrottling, from the concurrency wait on
ConcurrencyWait(c) ==
    IF c.sc.currentConcurrentRequests >= opt.maxConcurrentRequests
    THEN At(c, "poll", now)
    ELSE AfterThrottling([c EXCEPT !.sc.lastRequestTime = now])

\* A call of request(): it runs up to its first suspension
Request(c, via) ==
    LET since == now - c.sc.lastRequestTime
        inherited == IF c.stk = <<>> THEN NoProxy ELSE Top(c).proxy
        c1 == [c EXCEPT !.stk = Append(@, [Frame(via) EXCEPT !.proxy = inherited])]
    IN IF since < opt.minRequestInterval
       THEN At(c1, "sleep", now + (opt.minRequestInterval - since))
       ELSE ConcurrencyWait(c1)

\* The error codes for which the catch block of request() reports the proxy
ReportedCodes == {"ECONNREFUSED", "ETIMEDOUT", "ECONNRESET"}

RECURSIVE Return(_, _), Throw(_, _)

\* The catch block of request(): decrement, rethrow
Catch(c, e) ==
    LET reported == /\ Top(c).proxy # NoProxy /\ opt.proxies # <<>>
                    /\ e.err \in ReportedCodes
        c1 == [c EXCEPT !.sc.pm = IF reported THEN ReportFailure(@, Top(c).proxy, now) ELSE @]
    IN Throw([c1 EXCEPT !.sc = Decrement(@)], e)

\* challengeResponse, captcha branch, after the double-down
CaptchaProvider(c, r, rid) ==
    IF opt.captchaProvider = "none" THEN Catch(c, Error("Error:NoCaptchaProvider", 0))
    ELSE IF opt.captchaProvider = "return_response" THEN Return(c, Value(r, rid, FALSE))
    ELSE Catch(c, Error("Error:CaptchaNotImplemented", 0))

\* The caller of a nested request() resumes with the value v it resolved with
Resume(c, via, v) ==
    CASE via = "doubleDown" ->
            IF ~IsCaptchaChallenge(v.resp) THEN Return(c, v)
            ELSE CaptchaProvider(c, Top(c).resp, Top(c).rid)
      [] via = "resubmit" ->
            IF v.resp.status = 400 THEN Catch(c, Error("CloudflareSolveError", 0))
            ELSE IF ~v.resp.loc THEN Return(c, v)
            ELSE Request(c, "redirect")
      [] via = "redirect" -> Return(c, v)
      [] via = "retry403" ->
            Return([c EXCEPT !.sc.retry403Count = IF v.resp.status = 200 THEN 0 ELSE @,
                             !.sc.in403Retry = FALSE], v)
      [] OTHER -> c

\* The caller of a nested request() resumes with the error e it rejected with
ResumeThrow(c, via, e) ==
    IF via = "retry403" THEN Catch([c EXCEPT !.sc.in403Retry = FALSE], e)
    ELSE Catch(c, e)

Return(c, v) ==
    LET via == Top(c).via
        c1 == [c EXCEPT !.stk = SubSeq(@, 1, Len(@) - 1)]
    IN IF c1.stk = <<>> THEN [c1 EXCEPT !.res = v] ELSE Resume(c1, via, v)

Throw(c, e) ==
    LET via == Top(c).via
        c1 == [c EXCEPT !.stk = SubSeq(@, 1, Len(@) - 1)]
    IN IF c1.stk = <<>> THEN [c1 EXCEPT !.res = e] ELSE ResumeThrow(c1, via, e)

\* challengeResponse, up to its first suspension
ChallengeResponse(c, r) ==
    IF IsCaptchaChallenge(r)
    THEN IF opt.doubleDown
         THEN Request(At(c, "nested", now), "doubleDown")
         ELSE CaptchaProvider(c, r, Top(c).rid)
    ELSE At(c, "cfdelay", now)

\* The challenge page of a response as iuamChallengeResponse reads it: the form
\* is extracted when the page also holds its closing tag
BodyOf(r) == Body("formEnd" \in r.marks, AllowList, "value")

\* challengeResponse, IUAM branch, after the delay: solve and resubmit
SubmitChallenge(c) ==
    LET submitUrl == IuamChallengeResponse(BodyOf(Top(c).resp), Url("https:", "a.test", "", "/"), DefaultInterpreter)
    IN IF ~submitUrl.ok THEN Catch(c, Error(submitUrl.err, 0))
       ELSE Request(At([c EXCEPT !.ob.solves = @ + 1], "nested", now), "resubmit")

Handle403ErrorNoLimit(c, r) ==
    LET c1 == [c EXCEPT !.sc.retry403Count = @ + 1, !.sc.last403Time = now,
                        !.ob.refreshes = @ + 1, !.ob.entry403 = @ + 1]
    IN At(RefreshStart(c1), "probe403", now)

\* A handler that compared the counter with <= and so retried once too often
Handle403ErrorOneMore(c, r) ==
    IF c.sc.retry403Count <= opt.max403Retries
    THEN LET c1 == [c EXCEPT !.sc.retry403Count = @ + 1, !.sc.last403Time = now,
                             !.ob.refreshes = @ + 1, !.ob.entry403 = @ + 1]
         IN At(RefreshStart(c1), "probe403", now)
    ELSE Return([c EXCEPT !.sc = Decrement(@), !.ob.entry403 = @ + 1],
                Value(r, Top(c).rid, FALSE))

\* _handle403Error, up to the refresh probe
Handle403Error(c, r) ==
    IF c.sc.retry403Count < opt.max403Retries
    THEN LET c1 == [c EXCEPT !.sc.retry403Count = @ + 1, !.sc.last403Time = now,
                             !.ob.refreshes = @ + 1, !.ob.entry403 = @ + 1]
         IN At(RefreshStart(c1), "probe403", now)
    ELSE Return([c EXCEPT !.sc = Decrement(@), !.ob.entry403 = @ + 1],
                Value(r, Top(c).rid, FALSE))

After403RefreshAlwaysRetry(c, refreshSuccess) ==
    Request(At([c EXCEPT !.sc.in403Retry = TRUE, !.ob.retries = @ + 1], "nested", now),
            "retry403")

After403RefreshRethrowing(c, refreshSuccess) ==
    IF refreshSuccess
    THEN Request(At([c EXCEPT !.sc.in403Retry = TRUE, !.ob.retries = @ + 1], "nested", now),
                 "retry403")
    ELSE Catch(c, Error("Error:RefreshFailed", 0))

\* _handle403Error, after the refresh probe
After403Refresh(c, refreshSuccess) ==
    IF refreshSuccess
    THEN Request(At([c EXCEPT !.sc.in403Retry = TRUE, !.ob.retries = @ + 1], "nested", now),
                 "retry403")
    ELSE Return([c EXCEPT !.sc = Decrement(@)], Value(Top(c).resp, Top(c).rid, FALSE))

\* handleCloudflareChallenges, from the counter reset on
NoChallenge(c, r) ==
    LET reset == ~r.loc /\ r.status # 429 /\ r.status # 503
        c1 == [c EXCEPT !.sc.solveDepthCnt = IF reset THEN 0 ELSE @,
                        !.sc.retry403Count =
                            IF reset /\ r.status = 200 /\ ~c.sc.in403Retry THEN 0 ELSE @]
    IN IF r.status = 403 /\ opt.autoRefreshOn403
       THEN Handle403Error(SetTop(c1, [Top(c1) EXCEPT !.resp = r]), r)
       ELSE Return([c1 EXCEPT !.sc = Decrement(@)], Value(r, Top(c1).rid, FALSE))

HandleCloudflareChallenges(c, r) ==
    IF c.sc.solveDepthCnt >= opt.solveDepth
    THEN Catch([c EXCEPT !.sc.solveDepthCnt = 0],
               Error("CloudflareLoopProtection", c.sc.solveDepthCnt))
    ELSE IF opt.disableCloudflareV1 THEN NoChallenge(c, r)
    ELSE LET v == IsChallengeRequest(r) IN
         IF v = "true"
         THEN ChallengeResponse(SetTop([c EXCEPT !.sc.solveDepthCnt = @ + 1],
                                       [Top(c) EXCEPT !.resp = r]), r)
         ELSE IF v = "false" THEN NoChallenge(c, r)
         ELSE Catch(c, Error(v, 0))

\* request(), from the transport's answer on
OnResponse(c, r) ==
    LET kind == ChallengeKind(r)
        c1 == [c EXCEPT !.sc.jar = @ \cup SetCookies,
                        !.sc.pm = IF Top(c).proxy # NoProxy /\ opt.proxies # <<>>
                                  THEN ReportSuccess(@, Top(c).proxy) ELSE @,
                        !.ob.hist = Append(@, r),
                        !.ob.fatal =
                            IF /\ kind \in {"FirewallBlock", "NewerUnsupported"}
                               /\ opt.postHook = "none" /\ ~opt.disableCloudflareV1
                            THEN kind ELSE @]
        c2 == IF opt.postHook = "replace"
              THEN Return(c1, Value(r, Top(c).rid, TRUE))
              ELSE HandleCloudflareChallenges(c1, r)
    IN [c2 EXCEPT !.ob.bumped = \/ @
                                \/ /\ ~StartsWithCloudflare(r.server)
                                   /\ c2.sc.solveDepthCnt > c.sc.solveDepthCnt,
                  !.ob.lapse = \/ @
                               \/ /\ r.status = 403 /\ ChallengeKind(r) = "None"
                                  /\ \E time \in now..(now + Recent403Window - 1) :
                                        ~ShouldRefreshSessionAt(c2.sc, time)]

\* A catch block that counted the failed dispatch as a solve attempt
OnTransportErrorCounted(c, code) ==
    Catch([c EXCEPT !.ob.failure = code, !.sc.solveDepthCnt = @ + 1], Error(code, 0))

\* request(), the transport rejected
OnTransportError(c, code) == Catch([c EXCEPT !.ob.failure = code], Error(code, 0))

-----------------------------------------------------------------------------
(* The transport's answers *)

R200 == Resp(200, "nginx", {}, FALSE)
R403 == Resp(403, "nginx", {}, FALSE)
RJs == Resp(503, "cloudflare", {"jsch", "form", "formEnd"}, FALSE)
RJsOpen == Resp(503, "cloudflare", {"jsch", "form"}, FALSE)
RCaptcha == Resp(403, "cloudflare", {"captcha", "form"}, FALSE)
RFirewall == Resp(403, "cloudflare", {"code1020", "captcha", "form"}, FALSE)
RNewJs == Resp(503, "cloudflare", {"jsch", "form", "formEnd", "orchJsch"}, FALSE)
RRedirect == Resp(302, "cloudflare", {}, TRUE)
R400 == Resp(400, "cloudflare", {}, FALSE)
RForeign == Resp(503, "nginx", {"jsch", "form", "formEnd"}, FALSE)

Answer(r) == [kind |-> "response", resp |-> r, code |-> ""]
Failure(code) == [kind |-> "error", resp |-> NoResp, code |-> code]

ProbeFailure == 0

-----------------------------------------------------------------------------
(* Options *)

DefaultOptions ==
    [maxConcurrentRequests |-> DefaultMaxConcurrentRequests,
     solveDepth |-> DefaultSolveDepth,
     max403Retries |-> Max403Retries,
     minRequestInterval |-> DefaultMinRequestInterval,
     sessionRefreshInterval |-> DefaultSessionRefreshInterval,
     autoRefreshOn403 |-> TRUE,
     doubleDown |-> TRUE,
     captchaProvider |-> "none",
     postHook |-> "none",
     disableCloudflareV1 |-> FALSE,
     proxies |-> <<>>,
     proxyRotation |-> "sequential",
     banTime |-> DefaultBanTime]

AmpleOptions == [DefaultOptions EXCEPT !.maxConcurrentRequests = AmpleConcurrency]

Scenario(o, m, p) == [opt |-> o, menu |-> m, probes |-> p]

As(who, n, scenarios) == {[callers |-> who, requests |-> n, on |-> s] : s \in scenarios}

SoloScenarios ==
    {Scenario(DefaultOptions,
              {Answer(R200), Answer(R403), Answer(RJs), Answer(RCaptcha), Answer(RFirewall),
               Answer(RNewJs), Failure("ECONNRESET")},
              {200, 403}),
     Scenario(AmpleOptions,
              {Answer(R200), Answer(RJs), Answer(RFirewall), Answer(RNewJs), Answer(RRedirect),
               Answer(R400), Answer(RForeign), Failure("ECONNRESET")},
              {200}),
     Scenario(AmpleOptions,
              {Answer(R200), Answer(R403), Answer(RFirewall), Failure("ECONNRESET")},
              {200, 403, ProbeFailure}),
     Scenario([AmpleOptions EXCEPT !.autoRefreshOn403 = FALSE],
              {Answer(R200), Answer(R403)}, {200}),
     Scenario([AmpleOptions EXCEPT !.postHook = "replace"],
              {Answer(R200), Answer(R403), Answer(RJs)}, {200}),
     Scenario([AmpleOptions EXCEPT !.disableCloudflareV1 = TRUE],
              {Answer(R200), Answer(RJs), Answer(RFirewall)}, {200}),
     Scenario(AmpleOptions, {Answer(R200), Answer(R403), Answer(RJs)}, {403}),
     Scenario(AmpleOptions, {Answer(R200), Answer(RJsOpen)}, {200})}
    \cup
    {Scenario([AmpleOptions EXCEPT !.doubleDown = d, !.captchaProvider = p],
              {Answer(R200), Answer(RCaptcha)}, {200})
        : d \in BOOLEAN, p \in {"none", "return_response", "2captcha"}}

\* What the refresh probe may come back with: a transport failure or a status
ProbeOutcomes == {ProbeFailure, 200, 201, 301, 302, 304, 403}

\* A caller whose 403 is followed by any outcome of the probe
ProbeScenarios == {Scenario(AmpleOptions, {Answer(R200), Answer(R403)}, ProbeOutcomes)}

\* The proxy URLs the constructor builds from options.proxies
Proxy1 == Proxy("http", "proxy1.example.com:8080")
Proxy2 == Proxy("http", "proxy2.example.com:8080")

\* A caller behind two proxies in round-robin rotation, on a transport that may
\* fail with a connection reset or with a timeout of axios
ProxyScenarios ==
    {Scenario([AmpleOptions EXCEPT !.proxies = <<Proxy1, Proxy2>>],
              {Answer(R200), Failure("ECONNRESET"), Failure("ECONNABORTED")}, {200})}

\* Callers that only meet plain answers: the throttle alone
ThrottleScenarios ==
    {Scenario([DefaultOptions EXCEPT !.maxConcurrentRequests = m], {Answer(R200)}, {200})
        : m \in {DefaultMaxConcurrentRequests, AmpleConcurrency}}

\* Callers on a session that goes stale
ConcScenarios ==
    {Scenario([DefaultOptions EXCEPT !.maxConcurrentRequests = m,
                                     !.sessionRefreshInterval = ShortRefreshInterval],
              {Answer(R200), Answer(R403)}, {200, 403})
        : m \in {DefaultMaxConcurrentRequests, AmpleConcurrency}}

\* Two callers of one instance, one or both of which meet challenges
SharedScenarios == {Scenario(AmpleOptions, {Answer(R200), Answer(RCaptcha)}, {200})}

-----------------------------------------------------------------------------
(* The state machine *)

InitScraper ==
    [solveDepthCnt |-> 0,
     sessionStartTime |-> Epoch,
     requestCount |-> 0,
     last403Time |-> 0,
     retry403Count |-> 0,
     in403Retry |-> FALSE,
     lastRequestTime |-> 0,
     currentConcurrentRequests |-> 0,
     jar |-> {},
     pm |-> NoProxyManager]

InitCommon ==
    /\ now = Epoch
    /\ stack = [t \in Tasks |-> <<>>]
    /\ result = [t \in Tasks |-> NoOutcome]
    /\ started = [t \in Tasks |-> 0]
    /\ obs = [t \in Tasks |-> NoObs]
    /\ wire = [last |-> 0, close |-> FALSE]
    /\ det = [resp |-> NoResp, verdict |-> "false", kind |-> "None"]
    /\ solver = Unsolved

\* A ProxyManager as its constructor leaves it, seen by a caller
Managed(pm) ==
    [pm |-> pm,
     failed |-> NoProxy,    \* the current proxy, when the last call reported its failure
     picks |-> <<>>,        \* what the getProxy calls returned, in order
     bans |-> 0,            \* reportFailure calls so far
     reports |-> 0]         \* reportSuccess and reportFailure calls so far

Init ==
    /\ InitCommon
    /\ \E s \in As({1}, [t \in Tasks |-> MaxRequests], SoloScenarios)
                \cup As(Tasks, [t \in Tasks |-> IF t = 1 THEN 2 ELSE 1], ThrottleScenarios)
                \cup As({1, 2}, [t \in Tasks |-> 1], ConcScenarios)
                \cup As({1}, [t \in Tasks |-> 1], ProbeScenarios)
                \cup As({1}, [t \in Tasks |-> MaxRequests], ProxyScenarios)
                \cup As({1, 2}, [t \in Tasks |-> 1], SharedScenarios) :
          /\ callers = s.callers
          /\ quota = s.requests
          /\ opt = s.on.opt /\ menu = s.on.menu /\ probes = s.on.probes
          /\ scraper = [InitScraper EXCEPT
                           !.pm = NewProxyManager(s.on.opt.proxies, s.on.opt.proxyRotation,
                                                  s.on.opt.banTime)]
    /\ manager = Managed(NoProxyManager)
    /\ access = Unasked({})

InitDetect ==
    /\ InitCommon
    /\ callers = {} /\ quota = [t \in Tasks |-> 0]
    /\ opt = DefaultOptions /\ menu = {} /\ probes = {}
    /\ scraper = InitScraper
    /\ manager = Managed(NoProxyManager)
    /\ access = Unasked({})

Ctx(t) == [sc |-> scraper, stk |-> stack[t], res |-> result[t], ob |-> obs[t], wire |-> wire]

Commit(t, c) ==
    /\ c.ob.calls <= MaxCalls
    /\ scraper' = c.sc
    /\ stack' = [stack EXCEPT ![t] = c.stk]
    /\ result' = [result EXCEPT ![t] = c.res]
    /\ obs' = [obs EXCEPT ![t] = c.ob]
    /\ wire' = c.wire
    /\ UNCHANGED <<opt, menu, probes, callers, quota, now, det, manager, solver, access>>

Active(t) == stack[t] # <<>>

Pc(t) == stack[t][Len(stack[t])].pc

Wake(t) == stack[t][Len(stack[t])].wake

\* A caller calls get/post/.../request on the instance
Start(t) ==
    /\ t \in callers
    /\ ~Active(t)
    /\ started[t] < quota[t]
    /\ started' = [started EXCEPT ![t] = @ + 1]
    /\ Commit(t, Request([Ctx(t) EXCEPT !.res = NoOutcome, !.ob = NoObs], "top"))

\* The throttling sleep of _applyRequestThrottling ends
WakeUp(t) ==
    /\ Active(t) /\ Pc(t) = "sleep" /\ now >= Wake(t)
    /\ Commit(t, ConcurrencyWait(Ctx(t)))
    /\ UNCHANGED started

\* A poll of the concurrency wait finds a free slot (a poll that finds none
\* sleeps another 100 ms and changes nothing)
Poll(t) ==
    /\ Active(t) /\ Pc(t) = "poll" /\ now >= Wake(t)
    /\ scraper.currentConcurrentRequests < opt.maxConcurrentRequests
    /\ Commit(t, ConcurrencyWait(Ctx(t)))
    /\ UNCHANGED started

\* The probe of the pre-dispatch _refreshSession ends; its result is not used
ProbeReturn(t) ==
    /\ Active(t) /\ Pc(t) = "probe"
    /\ \E status \in probes :
          Commit(t, PreDispatch([Ctx(t) EXCEPT !.ob.probed = @ \cup {status}]))
    /\ UNCHANGED started

\* performRequest ends
TransportReturn(t) ==
    /\ Active(t) /\ Pc(t) = "dispatch"
    /\ \E o \in menu :
          Commit(t, IF o.kind = "response" THEN OnResponse(Ctx(t), o.resp)
                    ELSE OnTransportError(Ctx(t), o.code))
    /\ UNCHANGED started

\* The challenge delay of challengeResponse ends
ChallengeDelay(t) ==
    /\ Active(t) /\ Pc(t) = "cfdelay" /\ now >= Wake(t)
    /\ Commit(t, SubmitChallenge(Ctx(t)))
    /\ UNCHANGED started

\* The probe of _handle403Error's _refreshSession ends
Probe403Return(t) ==
    /\ Active(t) /\ Pc(t) = "probe403"
    /\ \E status \in probes :
          Commit(t, After403Refresh([Ctx(t) EXCEPT !.ob.probed = @ \cup {status},
                                                   !.ob.probe = status],
                                    RefreshSucceeded(status)))
    /\ UNCHANGED started

Tick ==
    /\ now < MaxTime
    /\ now' = now + 1
    /\ UNCHANGED <<opt, menu, probes, callers, quota, scraper, stack, result, started, obs, wire, det, manager, solver, access>>

Step(t) ==
    \/ Start(t)
    \/ WakeUp(t)
    \/ Poll(t)
    \/ ProbeReturn(t)
    \/ TransportReturn(t)
    \/ ChallengeDelay(t)
    \/ Probe403Return(t)

Next == (\E t \in Tasks : Step(t)) \/ Tick

Spec == Init /\ [][Next]_vars

\* The detector applied to a response
Detect ==
    /\ \E r \in DetectorInputs :
          det' = [resp |-> r, verdict |-> IsChallengeRequest(r), kind |-> ChallengeKind(r)]
    /\ UNCHANGED <<opt, menu, probes, callers, quota, scraper, now, stack, result, started, obs, wire, manager, solver, access>>

DetectSpec == InitDetect /\ [][Detect]_vars

-----------------------------------------------------------------------------
(* A ProxyManager used on its own *)

\* The proxies of the ProxyManager tests
ManagerProxies ==
    <<Proxy("http", "proxy1.example.com:8080"), Proxy("http", "proxy2.example.com:8080"),
      Proxy("http", "proxy3.example.com:8080")>>

\* The lists a manager is built with: none, one, several proxies
ConfiguredProxies == {SubSeq(ManagerProxies, 1, n) : n \in 0..Len(ManagerProxies)}

InitManager ==
    /\ InitCommon
    /\ callers = {} /\ quota = [t \in Tasks |-> 0]
    /\ opt = DefaultOptions /\ menu = {} /\ probes = {}
    /\ scraper = InitScraper
    /\ \E proxies \in ConfiguredProxies, strategy \in {"sequential", "random"} :
            manager = Managed(NewProxyManager(proxies, strategy, ShortBanTime))
    /\ access = Unasked({})

\* The configurations a caller may report: those of the configured proxies
Reportable == {ProxyToConfig(manager.pm.proxies[i]) : i \in 1..Len(manager.pm.proxies)}

ManagerGetProxy ==
    /\ Len(manager.picks) < MaxPicks
    /\ \E rnd \in 0..(RandomSteps - 1) :
          LET got == GetProxy(manager.pm, now, rnd)
          IN manager' = [manager EXCEPT !.pm = got.pm, !.failed = NoProxy,
                                        !.picks = Append(@, got.ret)]
    /\ UNCHANGED <<opt, menu, probes, callers, quota, scraper, now, stack, result, started,
                   obs, wire, det, solver, access>>

ManagerReportSuccess ==
    /\ manager.reports < MaxReports
    /\ \E proxy \in Reportable :
          manager' = [manager EXCEPT !.pm = ReportSuccess(@, proxy), !.failed = NoProxy,
                                     !.reports = @ + 1]
    /\ UNCHANGED <<opt, menu, probes, callers, quota, scraper, now, stack, result, started,
                   obs, wire, det, solver, access>>

ManagerReportFailure ==
    /\ manager.reports < MaxReports
    /\ \E proxy \in Reportable :
          manager' = [manager EXCEPT !.pm = ReportFailure(@, proxy, now),
                                     !.failed = IF proxy = manager.pm.currentProxy
                                                THEN proxy ELSE NoProxy,
                                     !.bans = @ + 1, !.reports = @ + 1]
    /\ UNCHANGED <<opt, menu, probes, callers, quota, scraper, now, stack, result, started,
                   obs, wire, det, solver, access>>

ManagerTick ==
    /\ now < MaxTime
    /\ now' = now + 1
    /\ UNCHANGED <<opt, menu, probes, callers, quota, scraper, stack, result, started, obs,
                   wire, det, manager, solver, access>>

ManagerNext == ManagerGetProxy \/ ManagerReportSuccess \/ ManagerReportFailure \/ ManagerTick

ManagerSpec == InitManager /\ [][ManagerNext]_vars

-----------------------------------------------------------------------------
(* The challenge solver used on its own *)

\* The instance while challengeResponse runs for its first challenge
MidChallenge ==
    [InitScraper EXCEPT !.solveDepthCnt = 1, !.requestCount = 1,
                        !.currentConcurrentRequests = 1]

InitSolver ==
    /\ InitCommon
    /\ callers = {} /\ quota = [t \in Tasks |-> 0]
    /\ opt = DefaultOptions /\ menu = {} /\ probes = {}
    /\ scraper \in {InitScraper, MidChallenge}
    /\ manager = Managed(NoProxyManager)
    /\ access = Unasked({})

\* createInterpreter(name), then solveChallenge(body, domain) on what it made
SolveWith ==
    /\ \E name \in InterpreterNames, body \in Bodies :
          LET made == CreateInterpreter(name)
          IN solver' = [Unsolved EXCEPT !.asked = "solveChallenge",
                                        !.interpreter = name, !.body = body, !.created = made,
                                        !.solved = IF made.ok THEN SolveChallenge(made.value, body)
                                                   ELSE made]
    /\ UNCHANGED <<opt, menu, probes, callers, quota, scraper, now, stack, result, started,
                   obs, wire, det, manager, access>>

\* iuamChallengeResponse(body, url, interpreter)
Respond ==
    /\ \E name \in InterpreterNames, body \in Bodies, url \in Urls :
          LET again == /\ solver.asked = "iuamChallengeResponse"
                       /\ solver.interpreter = name /\ solver.body = body /\ solver.url = url
          IN solver' = [Unsolved EXCEPT !.asked = "iuamChallengeResponse",
                                        !.interpreter = name, !.body = body, !.url = url,
                                        !.response = IuamChallengeResponse(body, url, name),
                                        !.repeated = again,
                                        !.first = IF again THEN solver.response
                                                  ELSE Unsolved.first]
    /\ UNCHANGED <<opt, menu, probes, callers, quota, scraper, now, stack, result, started,
                   obs, wire, det, manager, access>>

SolverNext == SolveWith \/ Respond

SolverSpec == InitSolver /\ [][SolverNext]_vars

-----------------------------------------------------------------------------
(* The cookie accessors used on their own *)

\* The host of the URL the accessors are asked about
AccessDomain == "example.com"

\* Cookies the jar may hold: anti-bot cookies of the domain (one under the
\* dotted domain, one whose value holds a "="), a cookie of the site itself
\* and an anti-bot cookie of another domain
AccessCookies ==
    {ValuedCookie("example.com", "cf_clearance", <<"tok">>),
     ValuedCookie(".example.com", "cf_chl_2", <<"tok", "=">>),
     ValuedCookie("example.com", "sid", <<"s1">>),
     ValuedCookie("other.org", "cf_clearance", <<"oth">>)}

\* How the this.get(url) of getTokens ends
GetOutcomes ==
    {Returned(200), Returned(403), Returned(503),
     [Thrown("ECONNRESET", "") EXCEPT !.value = 0]}

InitAccess ==
    /\ InitCommon
    /\ callers = {} /\ quota = [t \in Tasks |-> 0]
    /\ opt = DefaultOptions /\ menu = {} /\ probes = {}
    /\ scraper = InitScraper
    /\ manager = Managed(NoProxyManager)
    /\ \E jar \in SUBSET AccessCookies : access = Unasked(jar)

AccessUnchanged ==
    UNCHANGED <<opt, menu, probes, callers, quota, scraper, now, stack, result, started,
                obs, wire, det, manager, solver>>

\* getTokens(url)
AccessGetTokens ==
    /\ \E got \in GetOutcomes :
          access' = [access EXCEPT !.asked = "getTokens", !.got = got,
                                   !.tokens = GetTokens(access.jar, AccessDomain, got)]
    /\ AccessUnchanged

\* getCookieString(url)
AccessGetCookieString ==
    /\ \E got \in GetOutcomes :
          access' = [access EXCEPT !.asked = "getCookieString", !.got = got,
                                   !.string = GetCookieString(access.jar, AccessDomain, got)]
    /\ AccessUnchanged

\* getCookies()
AccessGetCookies ==
    /\ access' = [access EXCEPT !.asked = "getCookies", !.all = GetCookies(access.jar)]
    /\ AccessUnchanged

AccessNext == AccessGetTokens \/ AccessGetCookieString \/ AccessGetCookies

AccessSpec == InitAccess /\ [][AccessNext]_vars

-----------------------------------------------------------------------------
(* Properties *)

Done(t) == ~Active(t) /\ result[t].kind # "none"

ChallengeErrors ==
    {"CloudflareLoopProtection", "CloudflareCode1020", "CloudflareChallengeError",
     "CloudflareSolveError"}

Lone(t) == callers = {t}

\* No timer the request waits for is still running
Due(t) == Active(t) /\ now >= Wake(t)

\* request() calls past the throttling gate that have not ended
PastGate(t) == Cardinality({i \in 1..Len(stack[t]) : stack[t][i].pc \notin {"sleep", "poll"}})

RECURSIVE Sum(_, _)
Sum(f, S) == IF S = {} THEN 0 ELSE LET x == CHOOSE y \in S : TRUE IN f[x] + Sum(f, S \ {x})

InFlight == Sum([t \in Tasks |-> PastGate(t)], Tasks)

Every(seq, P(_)) == \A i \in 1..Len(seq) : P(seq[i])

IsLegacyJs(r) == ChallengeKind(r) = "LegacyJS"

IsLegacy(r) == ChallengeKind(r) \in {"LegacyJS", "LegacyCaptcha"}

\* The request failed in the transport
TransportFailed(t) == result[t].kind = "error" /\ result[t].err \notin ChallengeErrors

IsPlain403(r) == r.status = 403 /\ ChallengeKind(r) = "None"

\* C1: whenever no request() call is active the in-flight counter is 0: every
\* call that incremented it decremented it once before it ended.
C1_CounterBalanced ==
    (\A t \in Tasks : ~Active(t)) => scraper.currentConcurrentRequests = 0

\* C2: the first request of an instance, when every response it gets is a
\* legacy-JS challenge, keeps going until
\* it has made solveDepth resolutions, and then fails with a loop-protection
\* error that reports solveDepth attempts.
C2_LoopProtection ==
    \A t \in Tasks :
        (/\ Lone(t) /\ started[t] = 1
         /\ opt.postHook = "none" /\ ~opt.disableCloudflareV1
         /\ Every(obs[t].hist, IsLegacyJs) /\ ~TransportFailed(t)) =>
            /\ Due(t) => ENABLED Step(t)
            /\ (Done(t) /\ obs[t].hist # <<>>) =>
                  /\ result[t] = Error("CloudflareLoopProtection", opt.solveDepth)
                  /\ obs[t].solves = opt.solveDepth

DedicatedError(kind) ==
    IF kind = "FirewallBlock" THEN "CloudflareCode1020" ELSE "CloudflareChallengeError"

\* C3: once a firewall-block or newer-challenge response is received, the
\* request has failed with that kind's dedicated error, and so does nothing more.
C3_FatalImmediately ==
    \A t \in Tasks :
        obs[t].fatal # "" =>
            /\ ~Active(t)
            /\ result[t] = Error(DedicatedError(obs[t].fatal), 0)

ClassificationOrder == <<"FirewallBlock", "NewerCaptcha", "NewerJS", "Legacy">>

Matches(r, k) ==
    CASE k = "FirewallBlock" -> IsFirewallBlocked(r)
      [] k = "NewerCaptcha"  -> IsNewCaptchaChallenge(r)
      [] k = "NewerJS"       -> IsNewIUAMChallenge(r)
      [] k = "Legacy"        -> IsCaptchaChallenge(r) \/ IsIUAMChallenge(r)

OutcomeOf(k) ==
    CASE k = "FirewallBlock" -> "CloudflareCode1020"
      [] k = "NewerCaptcha"  -> "CloudflareChallengeError"
      [] k = "NewerJS"       -> "CloudflareChallengeError"
      [] k = "Legacy"        -> "true"

\* C4: the verdict on a response is the outcome of the first predicate, in the
\* order firewall-block, newer-captcha, newer-JS, legacy, that matches it, and
\* "no challenge" when none matches.
C4_ClassificationOrder ==
    LET r == det.resp
        M == {i \in 1..Len(ClassificationOrder) : Matches(r, ClassificationOrder[i])}
    IN det.verdict = IF M = {} THEN "false"
                     ELSE OutcomeOf(ClassificationOrder[CHOOSE i \in M : \A j \in M : i <= j])

\* A 403 carrying both the block-code marker and the captcha markers is a
\* firewall block
C4_Witness ==
    /\ IsFirewallBlocked(det.resp) /\ IsCaptchaChallenge(det.resp)
    /\ det.verdict = "CloudflareCode1020"

\* C5: a response whose server is not Cloudflare never raises the loop counter
\* and never makes the request fail with a challenge error.
C5_ForeignNeverChallenge ==
    \A t \in Tasks :
        /\ ~obs[t].bumped
        /\ (/\ Done(t) /\ obs[t].hist # <<>>
            /\ ~StartsWithCloudflare(obs[t].hist[Len(obs[t].hist)].server))
           => result[t].err \notin ChallengeErrors

\* C6: on a fresh instance with the default options, a request whose first
\* response is a challenge and whose second is a plain 200 keeps going until it
\* resolves with that 200, after exactly two dispatches.
C6_ChallengeThenOk ==
    \A t \in Tasks :
        (/\ Lone(t) /\ opt = DefaultOptions /\ started[t] = 1
         /\ obs[t].hist # <<>> /\ IsLegacy(obs[t].hist[1])
         /\ Len(obs[t].hist) >= 2 => obs[t].hist[2] = R200
         /\ ~TransportFailed(t)) =>
            /\ Due(t) => ENABLED Step(t)
            /\ Done(t) => /\ result[t] = Value(R200, 2, FALSE)
                          /\ obs[t].calls = 2

\* C7: the requests past the throttling gate never exceed maxConcurrentRequests.
C7_ConcurrencyCeiling == InFlight <= opt.maxConcurrentRequests

\* C8: no two consecutive dispatches are closer than minRequestInterval.
C8_MinimumSpacing == ~wire.close

\* Every answer the request got, from the transport and to the refresh probes,
\* was a plain 403
Always403(t) ==
    /\ Lone(t) /\ started[t] = 1
    /\ opt.postHook = "none" /\ opt.autoRefreshOn403
    /\ opt.max403Retries = Max403Retries
    /\ obs[t].hist # <<>> /\ Every(obs[t].hist, IsPlain403)
    /\ obs[t].probed \subseteq {403}
    /\ ~TransportFailed(t)

CounterResetOnlyBy200 ==
    (scraper.retry403Count > 0 /\ scraper'.retry403Count = 0) =>
        \E t \in Tasks :
            /\ Len(obs'[t].hist) = Len(obs[t].hist) + 1
            /\ obs'[t].hist[Len(obs'[t].hist)].status = 200

\* C9 as stated: a request answered 403 on every call has attempted the session
\* refresh exactly max403Retries = 2 times when it returns the 403.
C9_RefreshTwice ==
    \A t \in Tasks :
        (Always403(t) /\ Done(t)) =>
            /\ result[t].kind = "response" /\ result[t].resp.status = 403
            /\ obs[t].refreshes + obs[t].prerefreshes = Max403Retries

\* C9: a request answered 403 on every call, the refresh probe included,
\* attempts the session refresh exactly once, does not re-issue the request and
\* returns the 403 of its only dispatch unchanged; the 403-retry counter is 0
\* until the first 403 is handled and goes back to 0 only in a step that
\* receives a 200 response.
C9_RefreshOnce ==
    /\ [](/\ scraper.last403Time = 0 => scraper.retry403Count = 0
          /\ \A t \in Tasks :
                (Always403(t) /\ Done(t)) =>
                    /\ result[t] = Value(obs[t].hist[1], 1, FALSE)
                    /\ obs[t].calls = 1
                    /\ obs[t].refreshes + obs[t].prerefreshes = 1
                    /\ scraper.retry403Count = 1)
    /\ [][CounterResetOnlyBy200]_vars

C9_Witness ==
    \E t \in Tasks :
        /\ Always403(t) /\ Done(t)
        /\ obs[t].probed = {403} /\ obs[t].refreshes = 1
        /\ result[t].resp.status = 403

Popped(t) == Len(stack'[t]) < Len(stack[t])

NotReissued(t) ==
    /\ Popped(t)
    /\ obs'[t].calls = obs[t].calls
    /\ obs'[t].retries = obs[t].retries

\* One step of caller t seen from _handle403Error
Handler403Step(t) ==
    LET f == stack[t][Len(stack[t])]
        entered == obs'[t].entry403 = obs[t].entry403 + 1
        exhausted == scraper.retry403Count >= opt.max403Retries
        answered == Pc(t) = "probe403" /\ stack'[t] # stack[t]
    IN /\ (Active(t) /\ entered /\ exhausted) =>
              /\ NotReissued(t)
              /\ obs'[t].refreshes = obs[t].refreshes
              /\ stack'[t] = <<>> =>
                    result'[t] = Value(obs'[t].hist[Len(obs'[t].hist)], f.rid, FALSE)
       /\ (Active(t) /\ entered /\ ~exhausted) =>
              /\ Len(stack'[t]) = Len(stack[t]) /\ Pc(t)' = "probe403"
              /\ obs'[t].refreshes = obs[t].refreshes + 1
              /\ obs'[t].retries = obs[t].retries
              /\ scraper'.retry403Count = scraper.retry403Count + 1
       /\ (Active(t) /\ answered /\ ~RefreshSucceeded(obs'[t].probe)) =>
              /\ NotReissued(t)
              /\ stack'[t] = <<>> => result'[t] = Value(f.resp, f.rid, FALSE)
       /\ (Active(t) /\ answered /\ RefreshSucceeded(obs'[t].probe)) =>
              /\ Len(stack'[t]) = Len(stack[t]) + 1
              /\ stack'[t][Len(stack'[t])].via = "retry403"
              /\ obs'[t].retries = obs[t].retries + 1

\* C10: when _handle403Error is entered with the counter at max403Retries, or
\* its refresh probe fails, the request is not re-issued and returns the 403 it
\* received; when the counter is below the maximum and the probe succeeds, the
\* handler re-issues the request, once.
C10_Handle403 ==
    /\ [](\A t \in Tasks : /\ obs[t].retries <= obs[t].refreshes
                           /\ obs[t].refreshes <= obs[t].entry403)
    /\ [][\A t \in Tasks : Handler403Step(t)]_vars

\* The request was re-issued twice and the third 403 found the counter at the
\* maximum
C10_Witness ==
    \E t \in Tasks :
        /\ Done(t) /\ obs[t].retries = Max403Retries
        /\ obs[t].entry403 = Max403Retries + 1
        /\ result[t] = Value(obs[t].hist[Len(obs[t].hist)], obs[t].calls, FALSE)
        /\ result[t].resp.status = 403

\* The last response the request of caller t received
LastResp(t) == obs[t].hist[Len(obs[t].hist)]

CounterRaisedOnlyBy403 ==
    scraper'.retry403Count > scraper.retry403Count =>
        /\ opt.autoRefreshOn403
        /\ \E t \in Tasks :
              /\ Len(obs'[t].hist) = Len(obs[t].hist) + 1
              /\ obs'[t].hist[Len(obs'[t].hist)].status = 403

\* C11: for a single caller, once a request that made no 403 retry has ended on
\* a status-200 response, the 403-retry counter is 0.
C11_ResetBy200 ==
    \A t \in Tasks :
        (/\ Lone(t) /\ opt.postHook = "none"
         /\ Done(t) /\ obs[t].hist # <<>>
         /\ LastResp(t).status = 200 /\ obs[t].retries = 0) =>
            scraper.retry403Count = 0

\* A step in which a request() call leaves the throttling gate
LeavesGate(t) ==
    /\ Active(t)' /\ Pc(t)' \in {"probe", "dispatch"}
    /\ \/ Len(stack'[t]) > Len(stack[t])
       \/ Active(t) /\ Pc(t) \in {"sleep", "poll"}

\* request() runs _refreshSession before the dispatch exactly when the session
\* is stale as it leaves the gate
RefreshIffStale ==
    \A t \in Tasks :
        LeavesGate(t) =>
            (obs'[t].prerefreshes = (IF Active(t) THEN obs[t].prerefreshes ELSE 0) + 1
                <=> ShouldRefreshSessionAt(scraper, now))

\* C12: after a 403 response that is no challenge is received with
\* autoRefreshOn403 enabled, the session is stale at every moment of the
\* following 60 seconds.
C12_StaleAfter403 ==
    \A t \in Tasks :
        (opt.autoRefreshOn403 /\ opt.postHook = "none") => ~obs[t].lapse

\* C13: while a request waits for the refresh probe, the jar holds no
\* Cloudflare cookie, the session start time is the time of the refresh and the
\* request counter is 0 (for a single caller).
C13_RefreshPurges ==
    \A t \in Tasks :
        (Lone(t) /\ Active(t) /\ Pc(t) \in {"probe", "probe403"}) =>
            /\ \A k \in scraper.jar : k.key \notin CfCookieNames
            /\ scraper.sessionStartTime = Wake(t)
            /\ scraper.requestCount = 0

\* C14: the refresh made by _handle403Error counts as a success, so that the
\* request is re-issued, exactly when its probe came back with status 200, 301,
\* 302 or 304; every other status and a failure of the probe count as failure.
C14_RefreshSuccess ==
    [][\A t \in Tasks :
          (Active(t) /\ Pc(t) = "probe403" /\ stack'[t] # stack[t]) =>
              (obs'[t].retries = obs[t].retries + 1
                  <=> obs'[t].probe \in {200, 301, 302, 304})]_vars

\* A probe answered 304 was followed by the re-issue, and the request it belongs
\* to has also seen a probe fail
C14_Witness ==
    \E t \in Tasks :
        /\ obs[t].probe = 304 /\ obs[t].retries > 0
        /\ ProbeFailure \in obs[t].probed /\ 201 \in obs[t].probed

\* C15: a refresh that fails never makes request() throw. When the probe of the
\* refresh made before dispatch ends, whatever its outcome, the request goes on
\* to its dispatch; when the probe of the refresh made by _handle403Error ends
\* with a failure or a status that is no success, the request resolves with the
\* 403 it had received.
C15_RefreshFailureSwallowed ==
    [][\A t \in Tasks :
          /\ (Active(t) /\ Pc(t) = "probe" /\ stack'[t] # stack[t]) =>
                /\ Len(stack'[t]) = Len(stack[t])
                /\ Pc(t)' = "dispatch"
                /\ result'[t] = result[t]
          /\ (/\ Active(t) /\ Pc(t) = "probe403" /\ stack'[t] # stack[t]
              /\ ~RefreshSucceeded(obs'[t].probe)) =>
                /\ Len(stack'[t]) < Len(stack[t])
                /\ stack'[t] = <<>> =>
                      /\ result'[t].kind = "response"
                      /\ result'[t].resp = Top([stk |-> stack[t]]).resp
                      /\ result'[t].resp.status = 403]_vars

\* A request whose refresh before dispatch and whose refresh after the 403 both
\* had a failing probe has resolved with the 403
C15_Witness ==
    \E t \in Tasks :
        /\ Done(t) /\ result[t].kind = "response" /\ result[t].resp.status = 403
        /\ obs[t].prerefreshes = 1 /\ obs[t].refreshes = 1 /\ obs[t].calls = 1
        /\ obs[t].probed # {} /\ \A status \in obs[t].probed : ~RefreshSucceeded(status)
        /\ ProbeFailure \in obs[t].probed

IsLegacyCaptcha(r) == ChallengeKind(r) = "LegacyCaptcha"

\* C16: with double-down on, a request answered by a legacy captcha challenge
\* is re-issued once only: when the second response is no captcha the request
\* resolves with it, and when every response is a captcha challenge the
\* transport is called exactly twice before the provider check ends the request.
C16_DoubleDownOnce ==
    \A t \in Tasks :
        (/\ Lone(t) /\ started[t] = 1 /\ opt.doubleDown
         /\ opt.postHook = "none" /\ ~opt.disableCloudflareV1
         /\ Len(obs[t].hist) >= 2 /\ IsLegacyCaptcha(obs[t].hist[1])
         /\ ~TransportFailed(t)) =>
            IF IsLegacyCaptcha(obs[t].hist[2])
            THEN /\ obs[t].calls = 2
                 /\ Done(t)
            ELSE /\ obs[t].calls = 2
                 /\ Done(t) => result[t] = Value(obs[t].hist[2], 2, FALSE)

\* C17: a request that got nothing but legacy captcha challenges, on an
\* instance without a captcha provider, fails with the error dedicated to the
\* missing provider, not with a loop-protection error or a generic error.
C17_ProviderMissing ==
    \A t \in Tasks :
        (/\ Lone(t) /\ started[t] = 1 /\ opt.captchaProvider = "none"
         /\ opt.postHook = "none" /\ ~opt.disableCloudflareV1
         /\ obs[t].hist # <<>> /\ Every(obs[t].hist, IsLegacyCaptcha)
         /\ Done(t)) =>
            result[t] = Error("CloudflareCaptchaProvider", 0)

\* C18: with the provider "return_response", a request that got nothing but
\* legacy captcha challenges resolves with the captcha response as received,
\* and leaves the in-flight counter and the loop counter at 0, as on a fresh
\* instance.
C18_ReturnResponse ==
    \A t \in Tasks :
        (/\ Lone(t) /\ started[t] = 1 /\ opt.captchaProvider = "return_response"
         /\ opt.postHook = "none" /\ ~opt.disableCloudflareV1
         /\ obs[t].hist # <<>> /\ Every(obs[t].hist, IsLegacyCaptcha)
         /\ Done(t)) =>
            /\ result[t].kind = "response"
            /\ result[t].resp = obs[t].hist[1]
            /\ ~result[t].hooked
            /\ scraper.currentConcurrentRequests = 0
            /\ scraper.solveDepthCnt = 0

\* The last response that request t got answers the resubmission of a solved
\* legacy-JS challenge
ResubmissionAnswered(t) ==
    /\ Len(obs[t].hist) >= 2
    /\ IsLegacyJs(obs[t].hist[Len(obs[t].hist) - 1])

\* C19: when the response to the resubmission of a solved challenge has status
\* 400, the request fails with the solve error and dispatches nothing more.
C19_Resubmission400 ==
    \A t \in Tasks :
        (/\ Lone(t) /\ started[t] = 1
         /\ opt.postHook = "none" /\ ~opt.disableCloudflareV1
         /\ ResubmissionAnswered(t) /\ LastResp(t).status = 400) =>
            /\ Done(t)
            /\ result[t] = Error("CloudflareSolveError", 0)
            /\ obs[t].calls = Len(obs[t].hist)

\* C20: when the response to the resubmission of a solved challenge carries a
\* Location header, the request goes on with the follow-up request for that
\* location; when it carries none (and is neither a challenge nor a 400 or 403),
\* the request resolves with it and dispatches nothing more.
C20_ResubmissionRedirect ==
    \A t \in Tasks :
        (/\ Lone(t) /\ started[t] = 1
         /\ opt.postHook = "none" /\ ~opt.disableCloudflareV1
         /\ ResubmissionAnswered(t) /\ ChallengeKind(LastResp(t)) = "None"
         /\ LastResp(t).status \notin {400, 403}) =>
            IF LastResp(t).loc
            THEN /\ obs[t].calls = Len(obs[t].hist) =>
                      /\ Active(t)
                      /\ Top([stk |-> stack[t]]).via = "redirect"
                 /\ obs[t].calls <= Len(obs[t].hist) + 1
            ELSE /\ Done(t)
                 /\ result[t] = Value(LastResp(t), Len(obs[t].hist), FALSE)
                 /\ obs[t].calls = Len(obs[t].hist)

\* C21: a request whose dispatch the transport rejected has failed with that
\* same error, has dispatched nothing after it, and, when the dispatch went
\* through a proxy, has left that proxy banned in the proxy manager.
C21_TransportError ==
    \A t \in Tasks :
        (Lone(t) /\ obs[t].failure # "") =>
            /\ Done(t)
            /\ result[t] = Error(obs[t].failure, 0)
            /\ obs[t].proxy # NoProxy => IsBanned(scraper.pm, obs[t].proxy.url)

\* C22: behind several proxies in round-robin rotation, a request whose first
\* dispatch failed with a connection error, on a transport that can answer 200,
\* is dispatched again and ends only with the 200 of its second dispatch.
C22_RotateOnFailure ==
    \A t \in Tasks :
        (/\ Lone(t) /\ Len(opt.proxies) >= 2 /\ opt.proxyRotation = "sequential"
         /\ Answer(R200) \in menu
         /\ obs[t].failure \in ReportedCodes /\ obs[t].hist = <<>>) =>
            (Done(t) => /\ result[t].kind = "response" /\ result[t].resp.status = 200
                        /\ obs[t].calls = 2)

C30_RotateAway ==
    Len(manager.pm.proxies) >= 2 =>
        /\ (manager.picks = <<>> /\ manager.reports = 0) =>
                manager.pm.currentProxy = ProxyToConfig(manager.pm.proxies[1])
        /\ manager.failed # NoProxy => manager.pm.currentProxy # manager.failed

\* C23: the failures of the resolver keep their causes apart: a challenge page
\* without the form or without its fields fails with the extraction error
\* (CloudflareIUAMError), a failure of the evaluator with the solve error
\* (CloudflareSolveError), and nothing else makes iuamChallengeResponse fail.
C23_DistinctErrors ==
    solver.asked = "iuamChallengeResponse" =>
        /\ (~solver.body.form \/ ~(AllowList \subseteq solver.body.fields)) =>
              /\ ~solver.response.ok
              /\ solver.response.err = "CloudflareIUAMError"
        /\ (~solver.response.ok /\ solver.response.cause = "evaluator") =>
              solver.response.err = "CloudflareSolveError"

\* C24: asking the factory for a name it does not know fails; it does not hand
\* out an interpreter of some other kind.
C24_UnknownInterpreter ==
    (solver.asked = "solveChallenge"
        /\ ToLowerCase(solver.interpreter) \notin KnownInterpreters) => ~solver.created.ok

UnimplementedInterpreters ==
    {"Js2PyInterpreter", "NodeJsInterpreter", "V8Interpreter", "ChakraCoreInterpreter"}

\* C25: an interpreter that is not implemented fails when asked to solve a
\* challenge, and the resubmission prepared with the default interpreter never
\* carries the placeholder answer "0".
C25_NoPlaceholder ==
    /\ (solver.asked = "solveChallenge" /\ solver.created.ok
            /\ solver.created.value \in UnimplementedInterpreters) => ~solver.solved.ok
    /\ (solver.asked = "iuamChallengeResponse" /\ solver.interpreter = DefaultInterpreter
            /\ solver.response.ok) => solver.response.value.jschl_answer # "0"

\* C26: the native interpreter returns the answer the challenge script
\* computed, or fails: it fails when the script is missing, does not parse,
\* throws or leaves no answer, and never returns an empty answer.
C26_NativeAnswer ==
    (solver.asked = "solveChallenge" /\ solver.created.ok
        /\ solver.created.value = "NativeInterpreter") =>
            IF solver.body.script = "value"
            THEN solver.solved = Returned(Computed)
            ELSE ~solver.solved.ok

\* The elements of a sequence
Range(seq) == {seq[i] : i \in 1..Len(seq)}

\* The anti-bot cookies the jar holds for a domain, as name/value pairs
TokensHeld(jar, domain) ==
    {<<k.key, k.value>> : k \in {c \in jar : /\ c.domain \in {domain, "." \o domain}
                                            /\ c.key \in Range(TokenCookieNames)}}

RECURSIVE SplitOn(_, _, _)
\* The pieces of a string between the separators, the piece being read in acc
SplitOn(string, separator, acc) ==
    IF string = <<>> THEN <<acc>>
    ELSE IF Head(string) = separator THEN <<acc>> \o SplitOn(Tail(string), separator, <<>>)
    ELSE SplitOn(Tail(string), separator, Append(acc, Head(string)))

\* A cookie string read back: split on "; ", each part split on "="
ReadBack(string) ==
    IF string = <<>> THEN {}
    ELSE LET parts == SplitOn(string, "; ", <<>>)
         IN {<<SplitOn(parts[i], "=", <<>>)[1][1], SplitOn(parts[i], "=", <<>>)[2]>> :
                i \in 1..Len(parts)}

C28_AccessorsReflectJar ==
    /\ access.asked = "getTokens" =>
          IF access.got = Returned(200) /\ TokensHeld(access.jar, AccessDomain) # {}
          THEN /\ access.tokens.ok
               /\ Range(access.tokens.value.tokens) = TokensHeld(access.jar, AccessDomain)
               /\ access.tokens.value.userAgent = UserAgent
          ELSE ~access.tokens.ok
    /\ access.asked = "getCookies" =>
          Range(access.all) = {<<c.key, c.value>> : c \in access.jar}

\* C31: with maxConcurrentRequests = 1, a request of a lone caller that has
\* made a nested request() (resubmission, redirect follow, double-down or 403
\* retry) is never left without a step to take once its timers are due: the
\* nested call does not wait in the concurrency gate for the slot that its
\* own outer call holds.
C31_NestedNotSuspended ==
    \A t \in Tasks :
        (/\ Lone(t) /\ opt.maxConcurrentRequests = 1
         /\ Len(stack[t]) >= 2 /\ Due(t)) => ENABLED Step(t)

\* The step in which the request of caller t receives a response
Receives(t) == Len(obs'[t].hist) = Len(obs[t].hist) + 1

\* The response received in such a step
Received(t) == obs'[t].hist[Len(obs'[t].hist)]

\* The step ends the request of caller t with a loop-protection error
RaisesLoopProtection(t) ==
    /\ Active(t) /\ ~Active(t)'
    /\ result'[t].kind = "error" /\ result'[t].err = "CloudflareLoopProtection"

\* C32: the loop counter goes from a positive value to 0 only in a step that
\* classifies a response without Location header whose status is neither 429
\* nor 503; a step that raises the loop-protection error does not reset it.
C32_LoopCounterReset ==
    [][(scraper.solveDepthCnt > 0 /\ scraper'.solveDepthCnt = 0) =>
          \E t \in Tasks :
              /\ Receives(t)
              /\ ~Received(t).loc /\ Received(t).status \notin {429, 503}
              /\ ~RaisesLoopProtection(t)]_vars

\* The step in which the transport rejects the dispatch of caller t
TransportFails(t) == obs[t].failure = "" /\ obs'[t].failure # "" /\ Active(t)

\* C33: the loop counter increases only in a step that classifies a response
\* as a challenge, and then by one; a step in which the transport rejects a
\* dispatch leaves the counter as it was.
C33_LoopCounterIncrease ==
    [][/\ scraper'.solveDepthCnt > scraper.solveDepthCnt =>
             /\ scraper'.solveDepthCnt = scraper.solveDepthCnt + 1
             /\ \E t \in Tasks : Receives(t) /\ IsChallengeRequest(Received(t)) = "true"
       /\ (\E t \in Tasks : TransportFails(t)) =>
             scraper'.solveDepthCnt = scraper.solveDepthCnt]_vars

\* A request met one challenge and its resubmission failed in the transport:
\* the counter stands at the one challenge
C33_Witness ==
    \E t \in Tasks :
        /\ Done(t) /\ obs[t].failure # "" /\ result[t] = Error(obs[t].failure, 0)
        /\ Len(obs[t].hist) = 1 /\ IsLegacyJs(obs[t].hist[1])
        /\ obs[t].calls = 2
        /\ scraper.solveDepthCnt = 1

RECURSIVE TrailingChallenges(_)
\* How many responses at the end of a history are challenges
TrailingChallenges(hist) ==
    IF hist = <<>> \/ IsChallengeRequest(hist[Len(hist)]) # "true" THEN 0
    ELSE 1 + TrailingChallenges(SubSeq(hist, 1, Len(hist) - 1))

\* Two callers make one request each on a fresh instance that admits both
TwoInFlight ==
    /\ Cardinality(callers) = 2 /\ opt.maxConcurrentRequests >= 2
    /\ \A t \in callers : quota[t] = 1

\* C34: of two requests in flight on one instance, each is judged against its
\* own consecutive challenges: a request that fails with the loop-protection
\* error reports the challenges that preceded its own last response, and
\* while a request is in a challenge sequence the loop counter is not below
\* the length of that sequence.
C34_OwnLoopCount ==
    TwoInFlight =>
        \A t \in callers :
            /\ (Done(t) /\ result[t].kind = "error"
                    /\ result[t].err = "CloudflareLoopProtection") =>
                  result[t].depth =
                      TrailingChallenges(SubSeq(obs[t].hist, 1, Len(obs[t].hist) - 1))
            /\ Active(t) => scraper.solveDepthCnt >= TrailingChallenges(obs[t].hist)

\* The request of caller t is inside a 403 retry: one of its request() calls
\* was made by _handle403Error
RetryInProgress(t) == \E i \in 1..Len(stack[t]) : stack[t][i].via = "retry403"

\* Caller t receives a plain 200 in a request that made no 403 retry
Plain200Received(t) ==
    /\ Receives(t) /\ obs'[t].retries = 0
    /\ Received(t).status = 200 /\ ~Received(t).loc

\* C35: with two callers and maxConcurrentRequests >= 2, a 200 received by a
\* request that made no 403 retry leaves the 403-retry counter at 0 whatever
\* the other request is doing, and the retry flag is set for as long as a
\* 403 retry is in progress.
C35_RetryFlagPerRequest ==
    /\ []((Cardinality(callers) = 2 /\ opt.maxConcurrentRequests >= 2) =>
              ((\E t \in callers : RetryInProgress(t)) => scraper.in403Retry))
    /\ [][(Cardinality(callers) = 2 /\ opt.maxConcurrentRequests >= 2) =>
              \A t \in callers : Plain200Received(t) => scraper'.retry403Count = 0]_vars

\* C36: whatever the transport answers, a request of a lone caller that has
\* dispatches left to make always has a step to take once its timers are due,
\* until it has returned or thrown: it is never left waiting for something
\* that cannot happen.
C36_RequestEnds ==
    \A t \in Tasks :
        (Lone(t) /\ Due(t) /\ obs[t].calls < MaxCalls) => ENABLED Step(t)

\* C37: a request of a lone caller fails with the loop-protection error only
\* when the response it was handling is itself a challenge: after at most
\* solveDepth challenges a response that is no challenge is returned.
C37_LoopProtectionOnChallenge ==
    \A t \in Tasks :
        (/\ Lone(t) /\ started[t] = 1 /\ Done(t)
         /\ result[t].kind = "error" /\ result[t].err = "CloudflareLoopProtection") =>
            IsChallengeRequest(LastResp(t)) = "true"

\* C38: when the request of a lone caller has ended in an error or with a
\* captcha response handed back, the loop counter is 0: the next request
\* starts with no count left over.
C38_NoResidualCount ==
    \A t \in Tasks :
        (/\ Lone(t) /\ Done(t)
         /\ \/ result[t].kind = "error"
            \/ result[t].kind = "response" /\ IsCaptchaChallenge(result[t].resp)) =>
            scraper.solveDepthCnt = 0

\* C39: in every state the 403-retry counter lies between 0 and
\* max403Retries and the in-flight counter is not negative.
C39_CountersInRange ==
    /\ scraper.retry403Count >= 0
    /\ scraper.retry403Count <= opt.max403Retries
    /\ scraper.currentConcurrentRequests >= 0

\* Two callers brought the counter to the maximum between them, and a 403
\* that found it there was returned without another refresh
C39_Witness ==
    /\ Cardinality(callers) = 2
    /\ scraper.retry403Count = opt.max403Retries
    /\ \A t \in callers : obs[t].entry403 >= 1
    /\ \E t \in callers :
          /\ Done(t) /\ result[t].kind = "response" /\ result[t].resp.status = 403
          /\ obs[t].entry403 > obs[t].refreshes

=============================================================================
